---- MODULE Spec2Model ----
(***************************************************************************)
(* Step detection and counting engine of sihatAI:                          *)
(*   services/step-counter.ts    StepCounterService (singleton stepCounter)*)
(*   services/ios-step-helper.ts IOSStepCounterHelper (singleton)          *)
(*   components/weight-activity-tracker.tsx  the screen that drives them   *)
(*                                                                         *)
(* Units: acceleration in hundredths of g (1.2 g is 120), time in ms.      *)
(***************************************************************************)
EXTENDS Integers, Sequences, FiniteSets, TLC

\* ---------------------------------------------------------------- bounds
T0 == 1000000          \* Date.now() when the process starts
\* Spec: every operation of the service
MaxStarts == 1         \* start calls in flight and subscriptions held
MaxSteps == 3          \* largest step count
MaxSamples == 2        \* samples delivered
\* SpecDetect: the two detectors on their sample streams
DetectTicks == 5       \* clock advances
HysteresisSamples == 7 \* samples on the generic path
WindowedSamples == 23  \* samples on the windowed path
WarmUp == 18           \* of them at rest, at first
\* SpecCount: counting and saving
CountTicks == 10       \* clock advances, of Stride sampling intervals each
CountSteps == 11       \* largest step count
Stride == 3
AddNine == 9           \* the addSteps() argument
\* SpecCal: calibration and sensitivity
CalStride == 301       \* sampling intervals per clock advance (30.1 s)
CalTicks == 1          \* clock advances
CalSteady == 9         \* leading calibration samples of one magnitude
CalSamples == 11       \* samples one calibration captures
\* SpecHistory: the step history
MaxDays == 2           \* earlier days the store may hold a record for

\* ------------------------------------------------------- program constants
UpdateInterval == 100        \* Accelerometer.setUpdateInterval(100)
DefaultStepThreshold == 120  \* stepThreshold = 1.2
minStepInterval == 200       \* minStepInterval = 200
IosStepThreshold == 30       \* helper stepThreshold = 0.3
IosMinStepInterval == 300    \* (currentTime - lastStepTime) > 300
bufferSize == 20             \* helper bufferSize = 20
SaveEvery == 10              \* this.stepCount % 10 === 0

NoValue == -1                \* "nothing": null / no write / no notification
Rejects == -2                \* a key for which AsyncStorage.getItem rejects
Corrupt == -3                \* a stored string JSON.parse throws on
HealthThrows == -4           \* the call on this.iosHealthService throws
HealthUnavailable == -5      \* iosHealthService.isAvailable() gives false
calibrationDuration == 30000 \* calibrationDuration = 30000
MinSamples == 10             \* if (samples.length < 10) return
SetMin == 50                 \* setStepThreshold: Math.max(0.5, ...)
SetMax == 300                \* setStepThreshold: Math.min(3.0, ...)
CalMin == 80                 \* calibrateStepDetection: Math.max(0.8, ...)
CalMax == 200                \* calibrateStepDetection: Math.min(2.0, ...)
IosSetMin == 10              \* setThreshold: Math.max(0.1, ...)
IosSetMax == 100             \* setThreshold: Math.min(1.0, ...)
IosCalMin == 20              \* calibrateForUser: Math.max(0.2, ...)
IosCalMax == 80              \* calibrateForUser: Math.min(0.8, ...)

Platforms == {"android", "ios"}

\* {x, y, z} readings delivered by the accelerometer: magnitudes 50 (low),
\* 150 (high), 120 (at the generic threshold) and 32; |z| 0, 0, 120 (a peak)
\* and 32 (a bump that clears the windowed mean only from a quiet buffer)
Samples == { <<30, 40, 0>>, <<90, 120, 0>>, <<0, 0, -120>>, <<0, 0, 32>> }

\* today's record in AsyncStorage when the process starts (NoValue: no record)
StoredAtStart == {NoValue, 0, 2}

VARIABLES
  platform,          \* Platform.OS
  now,               \* Date.now()
  \* StepCounterService fields
  subscription,      \* this.subscription !== null
  isListening,
  stepCount,
  lastMagnitude,
  stepThreshold,
  lastStepTime,
  onStepCountUpdate, \* a callback is registered
  \* IOSStepCounterHelper fields
  stepBuffer,
  h_lastStepTime,
  h_stepThreshold,
  h_stepCount,
  \* environment
  stored,            \* AsyncStorage value of daily_steps_<today> (steps field)
  loadPc,            \* loadTodaysSteps(): "reading", "resolved", "done"
  loaded,            \* value getItem resolved with
  liveSubs,          \* listeners registered with the Accelerometer by start
  startAvail,        \* start calls awaiting isAvailableAsync()
  startPerm,         \* start calls awaiting requestPermissionsAsync()
  pastDays,          \* AsyncStorage under daily_steps_<date>, by days ago
  history,           \* what the last getStepHistory() resolved with
  result,            \* what the last sync or compare call resolved with
  \* calibrateStepDetection(): its closure
  calPc,             \* "idle", "sampling" (listener registered), "done"
  samples,           \* magnitudes captured
  startTime,         \* Date.now() when calibration began
  \* observation: the last operation, and what the observers below record
  op,                \* what the last operation was and what it emitted
  nSamples,          \* samples processed
  unsaved,           \* accepted events since the last issued write
  prevMetric,        \* metric of the previously processed sample (0 at first)
  edges,             \* rising edges of the metric stream seen so far
  lastEdgeTime,      \* time of the last rising edge (0: none)
  spaced,            \* every rising edge came > interval after the previous
  events,            \* accepted step events so far
  orphaned,          \* stop was called while the calibration was sampling
  stopped            \* stop has been called and start not since

svcVars == <<subscription, isListening, stepCount, lastMagnitude,
             stepThreshold, lastStepTime, onStepCountUpdate>>
helperVars == <<stepBuffer, h_lastStepTime, h_stepThreshold, h_stepCount>>
envVars == <<stored, loadPc, loaded, liveSubs, startAvail, startPerm>>
edgeVars == <<prevMetric, edges, lastEdgeTime, spaced, events>>
histVars == <<pastDays, history, result>>
calVars == <<calPc, samples, startTime>>
vars == <<platform, now, svcVars, helperVars, envVars, op, nSamples, unsaved,
          edgeVars, histVars, calVars, orphaned, stopped>>

\* ------------------------------------------------------------- helpers
Abs(n) == IF n < 0 THEN -n ELSE n

Max(a, b) == IF a >= b THEN a ELSE b

Min(a, b) == IF a <= b THEN a ELSE b

RECURSIVE SumSeq(_)
SumSeq(s) == IF s = <<>> THEN 0 ELSE Head(s) + SumSeq(Tail(s))

\* Math.sqrt(x*x + y*y + z*z), exact on the readings of Samples
Magnitude(s) ==
  LET q == s[1] * s[1] + s[2] * s[2] + s[3] * s[3]
  IN  CHOOSE r \in 0..300 : r * r <= q /\ (r + 1) * (r + 1) > q

\* Math.abs(z)
VerticalAcceleration(s) == Abs(s[3])

\* Platform.OS === 'ios' && this.iosHelper
UsesHelper == platform = "ios"

\* getCurrentStepCount()
GetCurrentStepCount == IF UsesHelper THEN h_stepCount ELSE stepCount

\* the record of the last operation: its name, its argument, whether a step
\* event was accepted, the count handed to AsyncStorage.setItem and the count
\* handed to the listener (NoValue: none)
Op(name, arg, fired, write, notify) ==
  [name |-> name, arg |-> arg, fired |-> fired, write |-> write,
   notify |-> notify]

\* (variant: the callback gets the count before the increment)
Notify_Stale(count) == IF onStepCountUpdate THEN count - 1 ELSE NoValue

\* what a sync or compare call resolves with (NoValue, "none": not set)
Result(fn, accelerometerSteps, healthAppSteps, source, accuracy, success) ==
  [fn |-> fn, accelerometerSteps |-> accelerometerSteps,
   healthAppSteps |-> healthAppSteps, source |-> source,
   accuracy |-> accuracy, success |-> success]

\* onStepCountUpdate(count) when a callback is registered
Notify(count) == IF onStepCountUpdate THEN count ELSE NoValue

\* await AsyncStorage.setItem(key, JSON.stringify({steps: count, ...})): the
\* record the store holds afterwards; a rejected write leaves it as it was
SaveTodaysSteps(count, ok) == IF ok THEN count ELSE stored

\* ------------------------------------------------------------- initial state
Init ==
  /\ platform \in Platforms
  /\ now = T0
  /\ subscription = FALSE
  /\ isListening = FALSE
  /\ stepCount = 0
  /\ lastMagnitude = 0
  /\ stepThreshold = DefaultStepThreshold
  /\ lastStepTime = 0
  /\ onStepCountUpdate = FALSE
  /\ stepBuffer = <<>>
  /\ h_lastStepTime = 0
  /\ h_stepThreshold = IosStepThreshold
  /\ h_stepCount = 0
  /\ stored \in StoredAtStart
  /\ loadPc = "reading"
  /\ loaded = NoValue
  /\ liveSubs = 0
  /\ startAvail = 0
  /\ startPerm = 0
  /\ op = Op("new", NoValue, FALSE, NoValue, NoValue)
  /\ unsaved = 0
  /\ prevMetric = 0
  /\ edges = 0
  /\ lastEdgeTime = 0
  /\ spaced = TRUE
  /\ events = 0
  /\ nSamples = 0
  /\ pastDays = [d \in 1..MaxDays |-> NoValue]
  /\ history = <<>>
  /\ calPc = "idle"
  /\ samples = <<>>
  /\ startTime = 0
  /\ orphaned = FALSE
  /\ stopped = FALSE
  /\ result = Result("none", NoValue, NoValue, "none", "none", FALSE)

\* ------------------------------------------------------------- the clock
\* Date.now() moves on by a number of sampling intervals
Tick(intervals) ==
  /\ now' = now + intervals * UpdateInterval
  /\ op' = Op("tick", NoValue, FALSE, NoValue, NoValue)
  /\ UNCHANGED <<platform, svcVars, helperVars, envVars>>

\* ------------------------------------------------- loadTodaysSteps (async)
\* getItem resolves with the stored record, or rejects
LoadResolve(ok) ==
  /\ loadPc = "reading"
  /\ loadPc' = IF ok THEN "resolved" ELSE "rejected"
  /\ loaded' = IF ok THEN stored ELSE NoValue
  /\ op' = Op("loadResolve", NoValue, FALSE, NoValue, NoValue)
  /\ UNCHANGED <<platform, now, svcVars, helperVars, stored, liveSubs,
                 startAvail, startPerm>>

\* the continuation after the await: this.stepCount = stepData.steps or 0
LoadTodaysSteps ==
  /\ loadPc \in {"resolved", "rejected"}
  /\ loadPc' = "done"
  /\ stepCount' = IF loaded # NoValue THEN loaded ELSE 0
  /\ loaded' = NoValue
  /\ op' = Op("load", loaded, FALSE, NoValue, NoValue)
  /\ UNCHANGED <<platform, now, subscription, isListening, lastMagnitude,
                 stepThreshold, lastStepTime, onStepCountUpdate, helperVars,
                 stored, liveSubs, startAvail, startPerm>>

\* ------------------------------------------------- hysteresis detector
\* (variant: no refractory period)
CrossesThreshold_NoDebounce(magnitude) ==
  /\ magnitude > stepThreshold
  /\ lastMagnitude <= stepThreshold

\* (variant: re-arms only strictly below the threshold)
CrossesThreshold_StrictRearm(magnitude) ==
  /\ magnitude > stepThreshold
  /\ lastMagnitude < stepThreshold
  /\ (now - lastStepTime) > minStepInterval

\* the condition of detectStep(magnitude)
CrossesThreshold(magnitude) ==
  /\ magnitude > stepThreshold
  /\ lastMagnitude <= stepThreshold
  /\ (now - lastStepTime) > minStepInterval

\* (variant: saves every 20 steps)
SavePeriodically_Every20(count) == count % (2 * SaveEvery) = 0

\* "Save periodically (every 10 steps)"
SavePeriodically(count) == count % SaveEvery = 0

\* ------------------------------------------------- windowed detector
\* (variant: the buffer is never trimmed)
PushBuffer_NoShift(buf, v) == Append(buf, v)

\* stepBuffer.push(v); if (length > bufferSize) stepBuffer.shift()
PushBuffer(buf, v) ==
  LET b == Append(buf, v)
  IN  IF Len(b) > bufferSize THEN Tail(b) ELSE b

\* (variant: no refractory period)
IsPeak_NoDebounce(buf) ==
  /\ ~ (Len(buf) < bufferSize)
  /\ LET current == buf[Len(buf)]
         previous == buf[Len(buf) - 1]
     IN  /\ current > previous
         /\ current * Len(buf) > SumSeq(buf) + h_stepThreshold * Len(buf)

\* the rest of detectStepFromAcceleration on the updated buffer:
\* current > previous && current > average + threshold && debounce,
\* with average = sum / length compared after multiplying by length
IsPeak(buf) ==
  /\ ~ (Len(buf) < bufferSize)
  /\ LET current == buf[Len(buf)]
         previous == buf[Len(buf) - 1]
     IN  /\ current > previous
         /\ current * Len(buf) > SumSeq(buf) + h_stepThreshold * Len(buf)
         /\ (now - h_lastStepTime) > IosMinStepInterval

\* ------------------------------------- the Accelerometer listener of start
\* one invocation of the callback registered by startStepCounting
SampleIos(s, ok) ==
  LET v == VerticalAcceleration(s)
      buf == PushBuffer(stepBuffer, v)
      stepDetected == IsPeak(buf)
      count == h_stepCount + 1
      save == stepDetected /\ SavePeriodically(count)
  IN  /\ stepBuffer' = buf
      /\ h_lastStepTime' = IF stepDetected THEN now ELSE h_lastStepTime
      /\ h_stepCount' = IF stepDetected THEN count ELSE h_stepCount
      /\ stepCount' = IF stepDetected THEN count ELSE stepCount
      /\ stored' = IF save THEN SaveTodaysSteps(count, ok) ELSE stored
      /\ op' = Op("sample", v, stepDetected,
                  IF save THEN count ELSE NoValue,
                  IF stepDetected THEN Notify(count) ELSE NoValue)
      /\ UNCHANGED <<lastMagnitude, lastStepTime, h_stepThreshold>>

SampleGeneric(s, ok) ==
  LET magnitude == Magnitude(s)
      step == CrossesThreshold(magnitude)
      count == stepCount + 1
      save == step /\ SavePeriodically(count)
  IN  /\ stepCount' = IF step THEN count ELSE stepCount
      /\ lastStepTime' = IF step THEN now ELSE lastStepTime
      /\ lastMagnitude' = magnitude
      /\ stored' = IF save THEN SaveTodaysSteps(count, ok) ELSE stored
      /\ op' = Op("sample", magnitude, step,
                  IF save THEN count ELSE NoValue,
                  IF step THEN Notify(count) ELSE NoValue)
      /\ UNCHANGED helperVars

Sample(s, ok) ==
  /\ liveSubs > 0
  /\ IF UsesHelper THEN SampleIos(s, ok) ELSE SampleGeneric(s, ok)
  /\ UNCHANGED <<platform, now, subscription, isListening, stepThreshold,
                 onStepCountUpdate, loadPc, loaded, liveSubs, startAvail,
                 startPerm>>

\* ------------------------------------------------- startStepCounting (async)
\* this.subscription = Accelerometer.addListener(...); this.isListening = true
Subscribe ==
  /\ subscription' = TRUE
  /\ isListening' = TRUE
  /\ liveSubs' = liveSubs + 1

\* the call: returns at once when already listening, else awaits
\* Accelerometer.isAvailableAsync(); op.arg tells what has become of the
\* promise startStepCounting() returned: pending, resolved or rejected
StartStepCounting ==
  /\ startAvail' = IF isListening THEN startAvail ELSE startAvail + 1
  /\ op' = Op("start", IF isListening THEN "resolved" ELSE "pending",
              FALSE, NoValue, NoValue)
  /\ UNCHANGED <<platform, now, svcVars, helperVars, stored, loadPc, loaded,
                 liveSubs, startPerm>>

\* isAvailableAsync() resolved: not available returns; iOS goes on to await
\* requestPermissionsAsync(); other platforms subscribe
StartAvailable(isAvailable) ==
  /\ startAvail > 0
  /\ startAvail' = startAvail - 1
  /\ IF ~ isAvailable
       THEN UNCHANGED <<subscription, isListening, liveSubs, startPerm>>
       ELSE IF platform = "ios"
              THEN /\ startPerm' = startPerm + 1
                   /\ UNCHANGED <<subscription, isListening, liveSubs>>
              ELSE /\ Subscribe
                   /\ UNCHANGED startPerm
  /\ op' = Op("startAvailable",
              IF isAvailable /\ platform = "ios" THEN "pending" ELSE "resolved",
              FALSE, NoValue, NoValue)
  /\ UNCHANGED <<platform, now, stepCount, lastMagnitude, stepThreshold,
                 lastStepTime, onStepCountUpdate, helperVars, stored, loadPc,
                 loaded>>

\* requestPermissionsAsync() resolved: not granted throws, granted subscribes
StartPermission(granted) ==
  /\ startPerm > 0
  /\ startPerm' = startPerm - 1
  /\ IF granted
       THEN Subscribe
       ELSE UNCHANGED <<subscription, isListening, liveSubs>>
  /\ op' = Op("startPermission", IF granted THEN "resolved" ELSE "rejected",
              FALSE, NoValue, NoValue)
  /\ UNCHANGED <<platform, now, stepCount, lastMagnitude, stepThreshold,
                 lastStepTime, onStepCountUpdate, helperVars, stored, loadPc,
                 loaded, startAvail>>

\* ------------------------------------------------- stopStepCounting
\* (variant: the subscription is removed but its handle is kept)
RemoveSubscription_KeepsHandle ==
  /\ liveSubs' = IF subscription THEN liveSubs - 1 ELSE liveSubs
  /\ UNCHANGED subscription

\* if (this.subscription) { this.subscription.remove(); this.subscription = null }
RemoveSubscription ==
  /\ liveSubs' = IF subscription THEN liveSubs - 1 ELSE liveSubs
  /\ subscription' = FALSE

\* removes the subscription, clears isListening, saves; the callback slot
\* onStepCountUpdate is not touched
StopStepCounting(ok) ==
  /\ RemoveSubscription
  /\ isListening' = FALSE
  /\ stored' = SaveTodaysSteps(stepCount, ok)
  /\ op' = Op("stop", NoValue, FALSE, stepCount, NoValue)
  /\ UNCHANGED <<platform, now, stepCount, lastMagnitude, stepThreshold,
                 lastStepTime, onStepCountUpdate, helperVars, loadPc, loaded,
                 startAvail, startPerm>>

\* ------------------------------------------------- the listener slot
SetStepCountUpdateListener ==
  /\ onStepCountUpdate' = TRUE
  /\ op' = Op("setListener", NoValue, FALSE, NoValue, NoValue)
  /\ UNCHANGED <<platform, now, subscription, isListening, stepCount,
                 lastMagnitude, stepThreshold, lastStepTime, helperVars,
                 envVars>>

RemoveStepCountUpdateListener ==
  /\ onStepCountUpdate' = FALSE
  /\ op' = Op("removeListener", NoValue, FALSE, NoValue, NoValue)
  /\ UNCHANGED <<platform, now, subscription, isListening, stepCount,
                 lastMagnitude, stepThreshold, lastStepTime, helperVars,
                 envVars>>

\* ------------------------------------------------- addSteps
\* (variant: always adds to the service's own field)
AddedCount_FromField(steps) == stepCount + steps

\* the count this.stepCount holds after addSteps(steps)
AddedCount(steps) ==
  IF UsesHelper THEN h_stepCount + steps ELSE stepCount + steps

AddStepsBody(name, steps, ok) ==
  /\ h_stepCount' = IF UsesHelper THEN h_stepCount + steps ELSE h_stepCount
  /\ stepCount' = AddedCount(steps)
  /\ stored' = SaveTodaysSteps(AddedCount(steps), ok)
  /\ op' = Op(name, steps, FALSE, AddedCount(steps),
              Notify(AddedCount(steps)))
  /\ UNCHANGED <<platform, now, subscription, isListening, lastMagnitude,
                 stepThreshold, lastStepTime, onStepCountUpdate, stepBuffer,
                 h_lastStepTime, h_stepThreshold, loadPc, loaded, liveSubs,
                 startAvail, startPerm>>

AddSteps(steps, ok) == AddStepsBody("addSteps", steps, ok)

\* ------------------------------------------------- resetDailySteps
\* (variant: the helper clears its buffer but keeps its count)
ResetStepCount_KeepsCount ==
  /\ UNCHANGED h_stepCount
  /\ stepBuffer' = <<>>

\* IOSStepCounterHelper.resetStepCount()
ResetStepCount ==
  /\ h_stepCount' = 0
  /\ stepBuffer' = <<>>

\* op.arg records the count getCurrentStepCount() gave before the reset
ResetDailySteps(ok) ==
  /\ IF UsesHelper THEN ResetStepCount ELSE UNCHANGED <<h_stepCount, stepBuffer>>
  /\ stepCount' = 0
  /\ stored' = SaveTodaysSteps(0, ok)
  /\ op' = Op("reset", GetCurrentStepCount, FALSE, 0, Notify(0))
  /\ UNCHANGED <<platform, now, subscription, isListening, lastMagnitude,
                 stepThreshold, lastStepTime, onStepCountUpdate,
                 h_lastStepTime, h_stepThreshold, loadPc, loaded, liveSubs,
                 startAvail, startPerm>>

\* ------------------------------- the screen's loadUserData, step_data part
\* dbSteps: the steps of today's step_data row (NoValue: stepError, no row)
LoadUserData(dbSteps, ok) ==
  IF dbSteps # NoValue /\ dbSteps > GetCurrentStepCount
    THEN AddStepsBody("loadUserData", dbSteps - GetCurrentStepCount, ok)
    ELSE /\ op' = Op("loadUserData", NoValue, FALSE, NoValue, NoValue)
         /\ UNCHANGED <<platform, now, svcVars, helperVars, envVars>>

\* ------------------------------------------------- sensitivity
\* numbers are hundredths of g, rounded down where the code keeps fractions

\* (variant: no clamping)
Clamp_None(lo, hi, v) == v

\* Math.max(lo, Math.min(hi, v))
Clamp(lo, hi, v) == Max(lo, Min(hi, v))

\* Math.sqrt
Sqrt(n) == CHOOSE r \in 0..400 : r * r <= n /\ n < (r + 1) * (r + 1)

\* list.reduce((a, b) => a + b, 0) / list.length
Mean(list) == SumSeq(list) \div Len(list)

\* the mean of the squared differences from the mean, and its root
Variance(list) ==
  SumSeq([k \in 1..Len(list) |-> (list[k] - Mean(list)) * (list[k] - Mean(list))])
    \div Len(list)

StdDev(list) == Sqrt(Variance(list))

\* 1.5 * stdDev
OneAndHalf(sd) == (3 * sd) \div 2

\* setStepThreshold(threshold)
SetStepThreshold(threshold) ==
  /\ stepThreshold' = Clamp(SetMin, SetMax, threshold)
  /\ op' = Op("setStepThreshold", threshold, FALSE, NoValue, NoValue)
  /\ UNCHANGED <<platform, now, subscription, isListening, stepCount,
                 lastMagnitude, lastStepTime, onStepCountUpdate, helperVars,
                 envVars, histVars, calVars>>

\* IOSStepCounterHelper.setThreshold(threshold)
SetThreshold(threshold) ==
  /\ h_stepThreshold' = Clamp(IosSetMin, IosSetMax, threshold)
  /\ op' = Op("setThreshold", threshold, FALSE, NoValue, NoValue)
  /\ UNCHANGED <<platform, now, svcVars, stepBuffer, h_lastStepTime,
                 h_stepCount, envVars, histVars, calVars>>

\* (variant: not clamped)
UserThreshold_Unclamped(list) == OneAndHalf(StdDev(list))

\* the threshold calibrateForUser computes from a long enough list
UserThreshold(list) == Clamp(IosCalMin, IosCalMax, OneAndHalf(StdDev(list)))

\* IOSStepCounterHelper.calibrateForUser(samples)
CalibrateForUser(list) ==
  /\ h_stepThreshold' =
       IF Len(list) < MinSamples THEN h_stepThreshold ELSE UserThreshold(list)
  /\ op' = Op("calibrateForUser", list, FALSE, NoValue, NoValue)
  /\ UNCHANGED <<platform, now, svcVars, stepBuffer, h_lastStepTime,
                 h_stepCount, envVars, histVars, calVars>>

\* ------------------------------------------------- calibrateStepDetection
\* the call: a closure with an empty sample list and its own Accelerometer
\* listener; the listener of startStepCounting stays as it is
CalibrateStepDetection ==
  /\ calPc' = "sampling"
  /\ samples' = <<>>
  /\ startTime' = now
  /\ op' = Op("calibrate", NoValue, FALSE, NoValue, NoValue)
  /\ UNCHANGED <<platform, now, svcVars, helperVars, envVars, histVars>>

\* the threshold the calibration listener computes when the time is up
CalibratedThreshold(list) ==
  Clamp(CalMin, CalMax, Mean(list) + OneAndHalf(StdDev(list)))

\* one invocation of the calibration listener: records the magnitude; once
\* more than calibrationDuration has passed it removes itself, sets
\* this.stepThreshold and resolves the promise
CalibrationListener(s) ==
  LET list == Append(samples, Magnitude(s))
      complete == now - startTime > calibrationDuration
  IN  /\ calPc = "sampling"
      /\ samples' = list
      /\ calPc' = IF complete THEN "done" ELSE calPc
      /\ stepThreshold' =
           IF complete THEN CalibratedThreshold(list) ELSE stepThreshold
      /\ op' = Op("calSample", Magnitude(s), FALSE, NoValue, NoValue)
      /\ UNCHANGED <<platform, now, subscription, isListening, stepCount,
                     lastMagnitude, lastStepTime, onStepCountUpdate,
                     helperVars, envVars, histVars, startTime>>

\* ------------------------------------------------- getStepHistory
\* what AsyncStorage holds for the day i days ago (0: today)
Lookup(i) == IF i = 0 THEN stored ELSE pastDays[i]

\* history.push(...) of one day: the parsed record, or the zero entry
HistoryEntry(i) ==
  IF Lookup(i) # NoValue
    THEN [steps |-> Lookup(i), daysAgo |-> i, lastUpdate |-> T0]
    ELSE [steps |-> 0, daysAgo |-> i, lastUpdate |-> 0]

\* the for loop from day i on; a rejected getItem or a throwing JSON.parse
\* leaves the loop through the catch with what has been pushed so far
RECURSIVE HistoryLoop(_, _, _)
HistoryLoop(i, days, acc) ==
  IF ~ (i < days) THEN acc
  ELSE IF Lookup(i) \in {Rejects, Corrupt} THEN acc
  ELSE HistoryLoop(i + 1, days, Append(acc, HistoryEntry(i)))

\* history.reverse()
Reverse(s) == [k \in 1..Len(s) |-> s[Len(s) + 1 - k]]

GetStepHistory(days) ==
  /\ history' = Reverse(HistoryLoop(0, days, <<>>))
  /\ op' = Op("getStepHistory", days, FALSE, NoValue, NoValue)
  /\ UNCHANGED <<platform, now, svcVars, helperVars, envVars, pastDays,
                 result>>

\* the store as earlier days left it: a record, nothing, or a key whose
\* lookup fails or whose value does not parse
DayValues == {NoValue, 5, Rejects, Corrupt}

DayStored(d, v) ==
  /\ pastDays' = [pastDays EXCEPT ![d] = v]
  /\ op' = Op("dayStored", d, FALSE, NoValue, NoValue)
  /\ UNCHANGED <<platform, now, svcVars, helperVars, envVars, history,
                 result>>

\* the calendar date changes while the service lives: new Date() in
\* saveTodaysSteps and getStepHistory now names the next day, so what was
\* today's record is the record of one day ago and the new day has none; no
\* code of the service runs
Midnight ==
  /\ pastDays' = [d \in 1..MaxDays |->
                    IF d = 1 THEN stored ELSE pastDays[d - 1]]
  /\ stored' = NoValue
  /\ op' = Op("midnight", stepCount, FALSE, NoValue, NoValue)
  /\ UNCHANGED <<platform, now, subscription, isListening, stepCount,
                 lastMagnitude, stepThreshold, lastStepTime,
                 onStepCountUpdate, helperVars, loadPc, loaded, liveSubs,
                 startAvail, startPerm, history, result>>

\* ------------------------------------------------- the Health app
\* syncWithHealthApp(); health is what this.iosHealthService answers: a step
\* count, NoValue (null), HealthUnavailable, or HealthThrows (the call
\* throws, as it does on an object that has no such method)
SyncWithHealthApp(health) ==
  IF platform # "ios" \/ health = HealthUnavailable
    THEN /\ result' = Result("sync", stepCount, NoValue, "unavailable",
                             "none", FALSE)
         /\ op' = Op("sync", health, FALSE, NoValue, NoValue)
         /\ UNCHANGED <<platform, now, svcVars, helperVars, envVars,
                        pastDays, history>>
  ELSE IF health \in {HealthThrows, NoValue}
    THEN /\ result' = Result("sync", stepCount, NoValue, "accelerometer",
                             "none", FALSE)
         /\ op' = Op("sync", health, FALSE, NoValue, NoValue)
         /\ UNCHANGED <<platform, now, svcVars, helperVars, envVars,
                        pastDays, history>>
  ELSE /\ stepCount' = health
       /\ stored' = SaveTodaysSteps(health, TRUE)
       /\ result' = Result("sync", health, health, "health_app", "none", TRUE)
       /\ op' = Op("sync", health, FALSE, health, Notify(health))
       /\ UNCHANGED <<platform, now, subscription, isListening,
                      lastMagnitude, stepThreshold, lastStepTime,
                      onStepCountUpdate, helperVars, loadPc, loaded,
                      liveSubs, startAvail, startPerm, pastDays, history>>

\* (variant: the boundary excluded)
Similar_Strict(local, external) ==
  /\ Max(local, external) # 0
  /\ Abs(local - external) * 100 < 10 * Max(local, external)

\* percentageDiff <= 10, where percentageDiff is
\* (difference / Math.max(local, external)) * 100; 0 / 0 is NaN, and NaN <= 10
\* is false
Similar(local, external) ==
  /\ Max(local, external) # 0
  /\ Abs(local - external) * 100 <= 10 * Max(local, external)

\* compareWithHealthApp(); health is what getStepsFromHealthApp() answers
CompareWithHealthApp(health) ==
  /\ result' =
       IF platform # "ios"
         THEN Result("compare", stepCount, NoValue, "none", "unknown", FALSE)
       ELSE IF health = HealthThrows
         THEN Result("compare", stepCount, NoValue, "none", "error", FALSE)
       ELSE IF health = NoValue
         THEN Result("compare", stepCount, NoValue, "none", "unknown", FALSE)
       ELSE Result("compare", stepCount, health, "none",
                   IF Similar(stepCount, health) THEN "similar"
                   ELSE "different", FALSE)
  /\ op' = Op("compare", health, FALSE, NoValue, NoValue)
  /\ UNCHANGED <<platform, now, svcVars, helperVars, envVars, pastDays,
                 history>>

\* IOSHealthService.syncWithHealthKit(appSteps, date); healthKit is what
\* getStepCount(date) resolves with (NoValue: null)
SyncWithHealthKit(appSteps, healthKit) ==
  /\ result' =
       IF healthKit = NoValue
         THEN Result("syncWithHealthKit", appSteps, NoValue, "none", "none",
                     FALSE)
       ELSE IF healthKit * 10 > appSteps * 12
         THEN Result("syncWithHealthKit", appSteps, healthKit, "health_app",
                     "none", TRUE)
       ELSE Result("syncWithHealthKit", appSteps, healthKit, "accelerometer",
                   "none", TRUE)
  /\ op' = Op("syncWithHealthKit", appSteps, FALSE, NoValue, NoValue)
  /\ UNCHANGED <<platform, now, svcVars, helperVars, envVars, pastDays,
                 history>>

\* ------------------------------------------------- specifications
\* inputs
AddAmounts == {1, 2}           \* addSteps() arguments
DbSteps == {NoValue, 0, 3}     \* today's step_data row (NoValue: none)
\* a high reading with z = 0, and a reading at the generic threshold
TwoSamples == { <<90, 120, 0>>, <<0, 0, -120>> }

\* readings of magnitude 0.5 and 1.5
CalReadings == { <<30, 40, 0>>, <<90, 120, 0>> }
\* arguments of the two setters
Sensitivities == {5, 90, 310}
\* sample lists handed to calibrateForUser
Level(n, v) == [k \in 1..n |-> v]
Alternating(n) == [k \in 1..n |-> IF k % 2 = 1 THEN 50 ELSE 150]
UserLists ==
  { Alternating(MinSamples - 1), Alternating(MinSamples), Level(MinSamples, 50) }

\* what the Health app may answer
HealthCounts == {0, 9, 10, 11}
HealthOutcomes == {HealthThrows, HealthUnavailable, NoValue} \cup HealthCounts
\* arguments of syncWithHealthKit: the app's count and HealthKit's
AppCounts == {0, 5, 10}
HealthKitCounts == {NoValue, 0, 6, 7, 12, 13}

\* ------------------------------------------------- observers
\* each reads the record of the operation just done (op') and the clock

\* counts the samples processed
CountSamples ==
  nSamples' = IF op'.name = "sample" THEN nSamples + 1 ELSE nSamples

\* counts the accepted events no issued write has followed
TrackUnsaved ==
  unsaved' = IF op'.write # NoValue THEN 0
             ELSE IF op'.fired THEN unsaved + 1 ELSE unsaved

\* follows the metric stream: a rising edge is a metric above the threshold
\* directly after one at or below it (the stream starts from 0)
TrackEdges ==
  /\ events' = IF op'.fired THEN events + 1 ELSE events
  /\ IF op'.name = "sample" /\ ~ UsesHelper
       THEN LET m == op'.arg
                edge == m > stepThreshold /\ prevMetric <= stepThreshold
            IN  /\ prevMetric' = m
                /\ edges' = IF edge THEN edges + 1 ELSE edges
                /\ lastEdgeTime' = IF edge THEN now ELSE lastEdgeTime
                /\ spaced' =
                     (spaced /\ (edge /\ lastEdgeTime # 0
                                   => now - lastEdgeTime > minStepInterval))
       ELSE UNCHANGED <<prevMetric, edges, lastEdgeTime, spaced>>

\* remembers a stop made while the calibration was sampling
TrackOrphan ==
  orphaned' = IF op'.name = "calibrate" THEN FALSE
              ELSE orphaned \/ (op'.name = "stop" /\ calPc = "sampling")

\* remembers that stopStepCounting() has returned and startStepCounting()
\* has not been called since
TrackStops ==
  stopped' = IF op'.name = "start" THEN FALSE
             ELSE IF op'.name = "stop" THEN TRUE ELSE stopped

\* the runs a specification explores
Bounded(ticks, steps, deliveries) ==
  /\ now <= T0 + ticks * UpdateInterval
  /\ stepCount <= steps
  /\ h_stepCount <= steps
  /\ nSamples <= deliveries

\* the screen calls start once: no call in flight, no subscription made yet
FirstStart == startAvail + startPerm + liveSubs = 0

\* the phone at rest while the windowed buffer fills: |z| = 0
AtRest ==
  UsesHelper /\ stepBuffer # <<>> /\ nSamples <= WarmUp
    => stepBuffer[Len(stepBuffer)] = 0

\* Spec: every operation of the service at one instant; writes succeed
Within ==
  /\ CountSamples
  /\ UNCHANGED <<unsaved, edgeVars, histVars, calVars, orphaned, stopped>>
  /\ Bounded(0, MaxSteps, MaxSamples)'
  /\ (startAvail + startPerm + liveSubs <= MaxStarts)'

Next ==
  \/ \E ok \in BOOLEAN : LoadResolve(ok) /\ Within
  \/ LoadTodaysSteps /\ Within
  \/ StartStepCounting /\ Within
  \/ \E a \in BOOLEAN : StartAvailable(a) /\ Within
  \/ \E g \in BOOLEAN : StartPermission(g) /\ Within
  \/ \E s \in TwoSamples : Sample(s, TRUE) /\ Within
  \/ StopStepCounting(TRUE) /\ Within
  \/ SetStepCountUpdateListener /\ Within
  \/ RemoveStepCountUpdateListener /\ Within
  \/ \E n \in AddAmounts : AddSteps(n, TRUE) /\ Within
  \/ ResetDailySteps(TRUE) /\ Within
  \/ \E d \in DbSteps : LoadUserData(d, TRUE) /\ Within

Spec == Init /\ [][Next]_vars

\* SpecDetect: a started engine fed samples while the clock runs
WithinDetect ==
  /\ CountSamples
  /\ TrackEdges
  /\ UNCHANGED <<unsaved, histVars, calVars, orphaned, stopped>>
  /\ Bounded(DetectTicks, DetectTicks,
             IF UsesHelper THEN WindowedSamples ELSE HysteresisSamples)'
  /\ AtRest'

NextDetect ==
  \/ Tick(1) /\ WithinDetect
  \/ FirstStart /\ StartStepCounting /\ WithinDetect
  \/ \E a \in BOOLEAN : StartAvailable(a) /\ WithinDetect
  \/ \E g \in BOOLEAN : StartPermission(g) /\ WithinDetect
  \/ \E s \in Samples : Sample(s, TRUE) /\ WithinDetect

SpecDetect == Init /\ [][NextDetect]_vars

\* SpecCount: counting and saving; the clock is read every Stride sampling
\* intervals, the generic path is fed highs and readings at the threshold,
\* the windowed path (one event at most) as in SpecDetect
WithinCount ==
  /\ IF UsesHelper THEN CountSamples ELSE UNCHANGED nSamples
  /\ TrackUnsaved
  /\ UNCHANGED <<edgeVars, histVars, calVars, orphaned, stopped>>
  /\ Bounded(IF UsesHelper THEN Stride ELSE CountTicks * Stride, CountSteps,
             WindowedSamples)'
  /\ AtRest'

NextCount ==
  \/ Tick(Stride) /\ WithinCount
  \/ FirstStart /\ StartStepCounting /\ WithinCount
  \/ \E a \in BOOLEAN : StartAvailable(a) /\ WithinCount
  \/ \E g \in BOOLEAN : StartPermission(g) /\ WithinCount
  \/ \E s \in TwoSamples : Sample(s, TRUE) /\ WithinCount
  \/ \E n \in {AddNine} : AddSteps(n, TRUE) /\ WithinCount
  \/ ResetDailySteps(TRUE) /\ WithinCount
  \/ StopStepCounting(TRUE) /\ WithinCount
  \/ SetStepCountUpdateListener /\ WithinCount
  \/ RemoveStepCountUpdateListener /\ WithinCount

\* no record stored for today yet
InitCount == Init /\ stored = NoValue

SpecCount == InitCount /\ [][NextCount]_vars

\* SpecCal: calibration next to the running counter
\* the user keeps one pace for the first CalSteady samples of a calibration
Steady ==
  \A k \in 1..Len(samples) : k <= CalSteady => samples[k] = samples[1]

\* one calibration at a time
OneSession == calPc # "sampling"

WithinCal ==
  /\ CountSamples
  /\ TrackOrphan
  /\ UNCHANGED <<unsaved, edgeVars, stopped>>
  /\ Bounded(CalTicks * CalStride, MaxSteps, MaxSamples)'
  /\ (Len(samples) <= CalSamples)'
  /\ Steady'

NextCal ==
  \/ Tick(CalStride) /\ UNCHANGED <<histVars, calVars>> /\ WithinCal
  \/ FirstStart /\ StartStepCounting /\ UNCHANGED <<histVars, calVars>>
       /\ WithinCal
  \/ \E a \in BOOLEAN :
       StartAvailable(a) /\ UNCHANGED <<histVars, calVars>> /\ WithinCal
  \/ \E g \in BOOLEAN :
       StartPermission(g) /\ UNCHANGED <<histVars, calVars>> /\ WithinCal
  \/ \E s \in {<<90, 120, 0>>} :
       Sample(s, TRUE) /\ UNCHANGED <<histVars, calVars>> /\ WithinCal
  \/ StopStepCounting(TRUE) /\ UNCHANGED <<histVars, calVars>> /\ WithinCal
  \/ OneSession /\ CalibrateStepDetection /\ WithinCal
  \/ \E s \in CalReadings : CalibrationListener(s) /\ WithinCal

SpecCal == InitCount /\ [][NextCal]_vars

\* SpecTune: calibrations and the setters, the counter not started
NextTune ==
  \/ Tick(CalStride) /\ UNCHANGED <<histVars, calVars>> /\ WithinCal
  \/ OneSession /\ CalibrateStepDetection /\ WithinCal
  \/ \E s \in CalReadings : CalibrationListener(s) /\ WithinCal
  \/ \E v \in Sensitivities : SetStepThreshold(v) /\ WithinCal
  \/ \E v \in Sensitivities : SetThreshold(v) /\ WithinCal
  \/ \E list \in UserLists : CalibrateForUser(list) /\ WithinCal

SpecTune == InitCount /\ [][NextTune]_vars

\* SpecStart: calls of startStepCounting() and stopStepCounting() in any
\* order, also while an earlier start is still awaiting
WithinStart ==
  /\ CountSamples
  /\ TrackStops
  /\ UNCHANGED <<unsaved, edgeVars, histVars, calVars, orphaned>>
  /\ Bounded(0, MaxSteps, MaxSamples)'
  /\ (startAvail + startPerm + liveSubs <= MaxStarts + 1)'

NextStart ==
  \/ StartStepCounting /\ WithinStart
  \/ \E a \in BOOLEAN : StartAvailable(a) /\ WithinStart
  \/ \E g \in BOOLEAN : StartPermission(g) /\ WithinStart
  \/ \E s \in TwoSamples : Sample(s, TRUE) /\ WithinStart
  \/ StopStepCounting(TRUE) /\ WithinStart

SpecStart == Init /\ [][NextStart]_vars

\* SpecLive: calibrations under a clock that keeps running; the
\* Accelerometer is under no obligation to deliver a sample
TimePasses == Tick(CalStride) /\ UNCHANGED <<histVars, calVars>> /\ WithinCal

NextLive ==
  \/ TimePasses
  \/ OneSession /\ CalibrateStepDetection /\ WithinCal
  \/ \E s \in CalReadings : CalibrationListener(s) /\ WithinCal

SpecLive == InitCount /\ [][NextLive]_vars /\ WF_vars(TimePasses)

\* SpecFail: the operations of Spec with AsyncStorage reads and writes that
\* may fail; the clock stands still
WithinFail ==
  /\ CountSamples
  /\ UNCHANGED <<unsaved, edgeVars, histVars, calVars, orphaned, stopped>>
  /\ Bounded(0, CountSteps, MaxSamples)'

NextFail ==
  \/ \E ok \in BOOLEAN : LoadResolve(ok) /\ WithinFail
  \/ LoadTodaysSteps /\ WithinFail
  \/ FirstStart /\ StartStepCounting /\ WithinFail
  \/ \E a \in BOOLEAN : StartAvailable(a) /\ WithinFail
  \/ \E g \in BOOLEAN : StartPermission(g) /\ WithinFail
  \/ \E s \in TwoSamples : \E ok \in BOOLEAN : Sample(s, ok) /\ WithinFail
  \/ \E ok \in BOOLEAN : AddSteps(AddNine, ok) /\ WithinFail
  \/ \E ok \in BOOLEAN : ResetDailySteps(ok) /\ WithinFail
  \/ \E ok \in BOOLEAN : StopStepCounting(ok) /\ WithinFail

SpecFail == Init /\ [][NextFail]_vars

\* SpecSync: the ledger next to the Health app
WithinSync ==
  /\ UNCHANGED <<nSamples, unsaved, edgeVars, calVars, orphaned, stopped>>
  /\ Bounded(0, CountSteps, 0)'

NextSync ==
  \/ \E n \in {1, AddNine} :
       AddSteps(n, TRUE) /\ UNCHANGED histVars /\ WithinSync
  \/ ResetDailySteps(TRUE) /\ UNCHANGED histVars /\ WithinSync
  \/ SetStepCountUpdateListener /\ UNCHANGED histVars /\ WithinSync
  \/ \E h \in HealthOutcomes : SyncWithHealthApp(h) /\ WithinSync
  \/ \E h \in HealthOutcomes \ {HealthUnavailable} :
       CompareWithHealthApp(h) /\ WithinSync
  \/ \E a \in AppCounts : \E h \in HealthKitCounts :
       SyncWithHealthKit(a, h) /\ WithinSync

SpecSync == InitCount /\ [][NextSync]_vars

\* SpecHistory: the step history over a store of several days
WithinHistory ==
  /\ UNCHANGED <<nSamples, unsaved, edgeVars, calVars, orphaned, stopped>>
  /\ Bounded(0, MaxSteps, 0)'

NextHistory ==
  \/ \E d \in 1..MaxDays : \E v \in DayValues :
       DayStored(d, v) /\ WithinHistory
  \/ \E days \in 0..(MaxDays + 1) : GetStepHistory(days) /\ WithinHistory
  \/ \E n \in AddAmounts :
       AddSteps(n, TRUE) /\ UNCHANGED histVars /\ WithinHistory

SpecHistory == Init /\ [][NextHistory]_vars

\* SpecDays: a service that lives through changes of date
NextDays ==
  \/ LoadResolve(TRUE) /\ UNCHANGED histVars /\ WithinHistory
  \/ LoadTodaysSteps /\ UNCHANGED histVars /\ WithinHistory
  \/ \E n \in AddAmounts :
       AddSteps(n, TRUE) /\ UNCHANGED histVars /\ WithinHistory
  \/ ResetDailySteps(TRUE) /\ UNCHANGED histVars /\ WithinHistory
  \/ Midnight /\ WithinHistory

SpecDays == Init /\ [][NextDays]_vars

\* ------------------------------------------------- detection properties
\* a step of the listener callback
SampleStep == nSamples' = nSamples + 1

\* what an accepted step event does to the hysteresis detector
HysteresisEvent == stepCount' = stepCount + 1 /\ lastStepTime' = now
HysteresisQuiet == stepCount' = stepCount /\ lastStepTime' = lastStepTime

\* what an accepted step event does to the windowed detector
WindowedEvent == h_stepCount' = h_stepCount + 1 /\ h_lastStepTime' = now
WindowedQuiet == h_stepCount' = h_stepCount /\ h_lastStepTime' = h_lastStepTime

\* C1: in hysteresis mode a sample with metric m fires a step event exactly
\* when m > threshold, the previously processed metric (0 at first) is <=
\* threshold and more than minStepInterval has passed since the last event;
\* lastMagnitude becomes m either way; no event without a metric above the
\* threshold
C1_HysteresisRule ==
  /\ [](~ UsesHelper => events <= edges)
  /\ [][SampleStep /\ ~ UsesHelper =>
          LET m == op'.arg
              rule == /\ m > stepThreshold
                      /\ prevMetric <= stepThreshold
                      /\ now - lastStepTime > minStepInterval
          IN  /\ IF rule THEN HysteresisEvent ELSE HysteresisQuiet
              /\ op'.fired = rule
              /\ lastMagnitude' = m]_vars

\* a second event accepted once the refractory period is over
C1_Witness ==
  ~ UsesHelper /\ op.name = "sample" /\ op.fired /\ events = 2

\* C2: in hysteresis mode, when every rising edge comes more than
\* minStepInterval after the previous one, there are as many step events as
\* rising edges
C2_EventsEqualEdges == ~ UsesHelper /\ spaced => events = edges

\* low, high, low, high more than 200 ms apart: two events
C2_Witness ==
  /\ ~ UsesHelper /\ spaced
  /\ nSamples = 4 /\ edges = 2 /\ events = 2 /\ stepCount = 2

\* C3: on both detectors an accepted event is stamped with the current time,
\* which is more than the detector's minimum interval after the stamp of the
\* previous accepted event; a sample that fires nothing leaves the stamp
C3_Debounce ==
  [][SampleStep =>
       IF UsesHelper
         THEN \/ WindowedQuiet
              \/ /\ WindowedEvent
                 /\ h_lastStepTime' - h_lastStepTime > IosMinStepInterval
         ELSE \/ HysteresisQuiet
              \/ /\ HysteresisEvent
                 /\ lastStepTime' - lastStepTime > minStepInterval]_vars

\* the windowed detector accepts a second event
C3_Witness ==
  UsesHelper /\ op.name = "sample" /\ op.fired /\ h_stepCount = 2

\* C4: the rolling buffer holds at most bufferSize (20) metrics, dropping the
\* oldest first; a sample fires a step event exactly when the buffer is full
\* with it, it exceeds the sample before it, it exceeds the buffer's mean
\* (itself included) by more than the sensitivity, and more than 300 ms
\* have passed since the last event
C4_WindowedRule ==
  /\ [](Len(stepBuffer) <= bufferSize)
  /\ [][SampleStep /\ UsesHelper =>
          LET v == op'.arg
              buf == stepBuffer'
              n == Len(buf)
              rule == /\ n = bufferSize
                      /\ buf[n] > buf[n - 1]
                      /\ buf[n] * n > SumSeq(buf) + h_stepThreshold * n
                      /\ now - h_lastStepTime > IosMinStepInterval
          IN  /\ buf = IF Len(stepBuffer) = bufferSize
                         THEN Append(Tail(stepBuffer), v)
                         ELSE Append(stepBuffer, v)
              /\ IF rule THEN WindowedEvent ELSE WindowedQuiet
              /\ op'.fired = rule]_vars

\* a full buffer whose newest sample rises but does not clear the mean
C4_Witness ==
  /\ UsesHelper /\ op.name = "sample" /\ ~ op.fired
  /\ nSamples > bufferSize /\ Len(stepBuffer) = bufferSize
  /\ stepBuffer[bufferSize] > stepBuffer[bufferSize - 1]
  /\ now - h_lastStepTime > IosMinStepInterval

C11_NotifyEachEvent ==
  [][op'.name = "sample" =>
       op'.notify =
         IF op'.fired /\ onStepCountUpdate
           THEN GetCurrentStepCount + 1 ELSE NoValue
    ]_vars

\* the second accepted event in a row, notified with 2
C11_Witness ==
  /\ op.name = "sample" /\ op.fired /\ op.notify = 2
  /\ unsaved = 2 /\ GetCurrentStepCount = 2

\* C12: getStepHistory(days) resolves with exactly `days` entries, the
\* oldest day first and today last, the zero entry standing for every day
\* the store holds nothing for, whatever the store holds
C12_HistoryComplete ==
  op.name = "getStepHistory" =>
    /\ Len(history) = op.arg
    /\ \A k \in 1..Len(history) :
         /\ history[k].daysAgo = op.arg - k
         /\ Lookup(op.arg - k) = NoValue =>
              history[k].steps = 0 /\ history[k].lastUpdate = 0

\* C26: the record of a day counts only that day's additions: at the change
\* of date getCurrentStepCount() is 0 for the new day, and the first
\* addSteps(n) of the new day writes n under the new day's key and leaves
\* getCurrentStepCount() at n
C26_NewDayFromZero ==
  [][/\ op'.name = "midnight" => GetCurrentStepCount' = 0
     /\ op.name = "midnight" /\ op'.name = "addSteps" =>
          stored' = op'.arg /\ GetCurrentStepCount' = op'.arg
    ]_vars

\* ------------------------------------------------- calibration properties
\* the calibration listener has just finished its session
CalibrationDone == op'.name = "calSample" /\ calPc' = "done"

\* C13: a calibration that captured fewer than 10 samples leaves the
\* threshold as it was, in calibrateStepDetection and in calibrateForUser
C13_TooFewSamples ==
  [][/\ CalibrationDone /\ Len(samples') < MinSamples =>
          stepThreshold' = stepThreshold
     /\ op'.name = "calibrateForUser" /\ Len(op'.arg) < MinSamples =>
          h_stepThreshold' = h_stepThreshold
    ]_vars

\* C14: while a calibration is sampling, the listener of startStepCounting
\* processes no sample, so no step is counted
C14_CalibrationExclusive ==
  [][calPc = "sampling" => op'.name # "sample"]_vars

\* C15: stopStepCounting during a calibration removes the calibration's
\* listener, and that calibration never sets the threshold afterwards
C15_StopCancelsCalibration ==
  [][/\ op'.name = "stop" /\ calPc = "sampling" => calPc' # "sampling"
     /\ orphaned /\ op'.name = "calSample" => stepThreshold' = stepThreshold
    ]_vars

\* the threshold of the detector the listener of startStepCounting uses
ActiveThreshold == IF UsesHelper THEN h_stepThreshold ELSE stepThreshold

\* C16: a calibration that finishes with at least 10 samples leaves its
\* result in the threshold of the detector in use on this platform
C16_AppliedToActive ==
  [][CalibrationDone /\ Len(samples') >= MinSamples =>
       IF UsesHelper
         THEN h_stepThreshold' \in
                {CalibratedThreshold(samples'), UserThreshold(samples')}
         ELSE stepThreshold' = CalibratedThreshold(samples')
    ]_vars

\* v brought into lo..hi
Clamped(lo, hi, v, out) ==
  /\ out \in lo..hi
  /\ v \in lo..hi => out = v
  /\ v < lo => out = lo
  /\ v > hi => out = hi

\* C17 as stated: setStepThreshold leaves the hysteresis threshold in
\* [0.1, 1.0] and setThreshold leaves the windowed one in [0.2, 0.8]
C17_SetterRangesAsStated ==
  [][/\ op'.name = "setStepThreshold" => stepThreshold' \in 10..100
     /\ op'.name = "setThreshold" => h_stepThreshold' \in 20..80
    ]_vars

\* C17: setStepThreshold(v) stores v clamped to [0.5, 3.0] in the hysteresis
\* threshold, setThreshold(v) stores v clamped to [0.1, 1.0] in the windowed
\* one, for every v
C17_SetterRanges ==
  [][/\ op'.name = "setStepThreshold" =>
          Clamped(SetMin, SetMax, op'.arg, stepThreshold')
     /\ op'.name = "setThreshold" =>
          Clamped(IosSetMin, IosSetMax, op'.arg, h_stepThreshold')
    ]_vars

\* a value above the range stored as 3.0
C17_Witness ==
  op.name = "setStepThreshold" /\ op.arg > SetMax /\ stepThreshold = SetMax

\* C18: whatever calibrations and setter calls have run, each threshold is
\* within the range its own setter clamps to
C18_ThresholdsInRange ==
  /\ stepThreshold \in SetMin..SetMax
  /\ h_stepThreshold \in IosSetMin..IosSetMax

\* a calibration of ten equal samples, its result raised to the lower bound
C18_Witness ==
  /\ op.name = "calibrateForUser" /\ Len(op.arg) >= MinSamples
  /\ StdDev(op.arg) = 0 /\ h_stepThreshold = IosCalMin

\* mean + 1.5 * population standard deviation
MeanPlusDeviation(list) == Mean(list) + OneAndHalf(StdDev(list))

\* C19: the threshold a calibration sets is mean + 1.5 * standard deviation
\* of the captured list, clamped: to [0.8, 2.0] by calibrateStepDetection,
\* to [0.2, 0.8] by calibrateForUser
C19_CalibrationFormula ==
  [][/\ CalibrationDone =>
          Clamped(CalMin, CalMax, MeanPlusDeviation(samples'), stepThreshold')
     /\ op'.name = "calibrateForUser" /\ Len(op'.arg) >= MinSamples =>
          Clamped(IosCalMin, IosCalMax, MeanPlusDeviation(op'.arg),
                  h_stepThreshold')
    ]_vars

\* ------------------------------------------------- Health app properties
\* the Health app gave a count to the call just made
ExternalCount(o) == platform = "ios" /\ o.arg >= 0

\* |local - external| / max(local, external) * 100 exceeds 10
PercentDiffAbove10(local, external) ==
  Abs(local - external) * 100 > 10 * Max(local, external)

C24_SimilarUpToTen ==
  op.name = "compare" /\ result.healthAppSteps # NoValue
      /\ Max(result.accelerometerSteps, result.healthAppSteps) # 0 =>
    result.accuracy =
      IF PercentDiffAbove10(result.accelerometerSteps, result.healthAppSteps)
        THEN "different" ELSE "similar"

\* a comparison at exactly 10 percent
C24_Witness ==
  /\ op.name = "compare" /\ result.accuracy = "similar"
  /\ result.accelerometerSteps = 10 /\ result.healthAppSteps = 9

\* C25: when the Health app gives no count (no provider on this platform,
\* not available, null, or the call throws) syncWithHealthApp names the
\* source "unavailable" and reports the local count as it is
C25_NoCountIsUnavailable ==
  op.name = "sync" /\ ~ ExternalCount(op) =>
    /\ result.source = "unavailable"
    /\ result.accelerometerSteps = stepCount

C29_CountsAgree == UsesHelper => stepCount = h_stepCount

\* C27: a calibration whose 30 s have passed leaves the sampling state,
\* whether or not the Accelerometer delivers another sample
C27_CalibrationEnds ==
  (calPc = "sampling" /\ now - startTime >= calibrationDuration)
    ~> (calPc # "sampling")

\* C28: whatever the order of the start and stop calls, at most one
\* Accelerometer listener of startStepCounting is subscribed, and none is
\* once stopStepCounting() has returned with no start call after it (so that
\* no sample reaches the counter)
C28_OneSubscription ==
  /\ liveSubs <= 1
  /\ stopped => liveSubs = 0

\* ------------------------------------------------- failure properties
\* the operation just done issued a write that AsyncStorage did not take
WriteFailed == op'.write # NoValue /\ stored' # op'.write

\* C21: a failed read leaves getCurrentStepCount() as it was, and after a
\* failed write the count in memory is the count the write carried
C21_FailureKeepsCount ==
  [][/\ op'.name = "load" /\ loadPc = "rejected" =>
          GetCurrentStepCount' = GetCurrentStepCount
     /\ WriteFailed => stepCount' = op'.write
    ]_vars

\* ------------------------------------------------- start properties
\* a startStepCounting() call has just ended without subscribing: the
\* accelerometer was not available, or the permission was not granted
StartFailed ==
  \/ op'.name = "startAvailable" /\ startPerm' = startPerm
       /\ liveSubs' = liveSubs
  \/ op'.name = "startPermission" /\ liveSubs' = liveSubs

\* C20: a startStepCounting() that finds the accelerometer unavailable or
\* the permission denied rejects towards its caller, and leaves
\* this.subscription and isListening as they were
C20_StartSignalsFailure ==
  [][StartFailed =>
       /\ op'.arg = "rejected"
       /\ subscription' = subscription /\ isListening' = isListening
    ]_vars

\* ------------------------------------------------- startup properties
\* the record loadTodaysSteps is about to apply, as a count (none: 0)
Persisted == IF loaded # NoValue THEN loaded ELSE 0

\* C6: when the load of today's record completes, getCurrentStepCount()
\* becomes the larger of the persisted count and the count in memory, and
\* the windowed detector's counter agrees with the service's count
C6_StartupReconciliation ==
  [][op'.name = "load" =>
       /\ GetCurrentStepCount' = Max(Persisted, GetCurrentStepCount)
       /\ (UsesHelper => h_stepCount' = stepCount')
    ]_vars

\* C7: no operation other than resetDailySteps lowers
\* getCurrentStepCount()
C7_Monotone ==
  [][op'.name # "reset" => GetCurrentStepCount' >= GetCurrentStepCount]_vars

\* C8: after resetDailySteps, getCurrentStepCount() is 0 on both platforms
\* and a write of the count 0 has been issued (and, the write succeeding,
\* the stored record holds 0)
C8_ResetToZero ==
  [][op'.name = "reset" =>
       /\ GetCurrentStepCount' = 0
       /\ op'.write = 0
       /\ stored' = 0
    ]_vars

\* a reset on the windowed path that gave up a count above 0
C8_Witness ==
  /\ op.name = "reset" /\ op.arg > 0
  /\ UsesHelper /\ GetCurrentStepCount = 0 /\ stored = 0

\* C9: addSteps(n) raises getCurrentStepCount() by exactly n on both
\* platforms and issues a write of the count after the addition, whether
\* or not that count is a multiple of 10
C9_AddSteps ==
  [][op'.name = "addSteps" =>
       /\ GetCurrentStepCount' = GetCurrentStepCount + op'.arg
       /\ op'.write = GetCurrentStepCount'
    ]_vars

\* an addition on the windowed path, to a count above 0, whose result is
\* not a multiple of 10
C9_Witness ==
  /\ op.name = "addSteps" /\ op.arg = 1 /\ op.write = 3
  /\ UsesHelper /\ GetCurrentStepCount = 3

\* C10 as stated: stopStepCounting leaves no subscription held, issues a
\* write of the count, and leaves no callback registered
C10_StopClearsListener ==
  [][op'.name = "stop" =>
       /\ ~ subscription'
       /\ op'.write = stepCount
       /\ ~ onStepCountUpdate'
    ]_vars

\* C10: stopStepCounting removes the subscription the service holds and
\* clears isListening, issues one write of this.stepCount, and leaves the
\* callback slot as it was; removeStepCountUpdateListener empties the slot
C10_StopKeepsListener ==
  [][/\ op'.name = "stop" =>
          /\ ~ subscription' /\ ~ isListening'
          /\ (subscription => liveSubs' = liveSubs - 1)
          /\ op'.write = stepCount /\ stepCount' = stepCount
          /\ onStepCountUpdate' = onStepCountUpdate
     /\ op'.name = "removeListener" => ~ onStepCountUpdate'
    ]_vars

\* a stop after a counted step, the callback still registered
C10_Witness ==
  /\ op.name = "stop" /\ op.write = 1
  /\ ~ UsesHelper /\ lastStepTime # 0
  /\ ~ subscription /\ liveSubs = 0 /\ onStepCountUpdate

====
